---- MODULE Spec2Model ----
(***************************************************************************)
(* Model of the multi-client TCP server of src/Server.cpp, src/Server.h.   *)
(*                                                                         *)
(* Threads: the controlling thread (startServer / startListening /         *)
(* ~Server), one handler thread per pthread_create in the accept loop      *)
(* (handleClientWrapper / handleClient) and the consumer thread            *)
(* (handleMessageQueue).  The environment is the kernel's descriptor table *)
(* and the peers: a peer connects, makes chunks available to recv() and    *)
(* may close its end.                                                      *)
(*                                                                         *)
(* A chunk is identified by <<connection, sequence number>>: the k-th      *)
(* chunk a recv() returned on that connection.  Queue entries carry the    *)
(* socket value the handler used (the pair's first member) and the chunk.  *)
(***************************************************************************)
EXTENDS Integers, Sequences, FiniteSets, TLC

\* ---- bounds of the model ----
MaxThreads == 2      \* pthread_create calls for handlers in one run
MaxFd == 2           \* size of the descriptor table for client sockets
MaxChunks == 2       \* chunks the peers send, over all connections
MaxRestarts == 1     \* times the operator answers Y
BufLen == 4          \* bytes of handleClient's buffer the model keeps (256 in the source)
MaxByte == 2         \* byte values are 0..MaxByte

\* ---- program constants ----
MAX_CLIENTS == 10
INVALID_SOCKET == -1

VARIABLES
    mainPc,         \* position of the controlling thread
    clientSocket,   \* startListening's local clientSocket
    threadData,     \* the stack slot of startListening's PosixThreadData
    serverSocket,   \* state of the server socket
    restarts,       \* restart branches taken
    clientsMap,     \* std::map<int, pthread_t>: socket -> handler thread
    dtorLeft,       \* keys ~Server's range-for has still to visit
    joined,         \* handler threads pthread_join has returned for
    messageQueue,   \* std::queue<std::pair<int, std::string>>
    mutex,          \* pthread_mutex_t mutex
    hPc,            \* handler thread -> position
    hSock,          \* handler thread -> its clientSocket parameter
    hBuf,           \* handler thread -> chunk in its buffer
    threadConn,     \* handler thread -> connection accepted when it was spawned
    cPc,            \* position of the consumer thread
    cMsg,           \* the consumer's clientMessagePair
    fdConn,         \* descriptor -> connection open on it (0: closed)
    nConns,         \* connections accepted so far
    peerOpen,       \* connections whose peer has not closed
    avail,          \* connection -> chunks sent by the peer and not yet read
    rcvd,           \* connection -> chunks recv() has returned on it
    pushed,         \* history: every pair pushed, in push order
    reported,       \* history: every pair printed, in print order
    buffer,         \* handleClient's char buffer, byte by byte
    recvBytes,      \* history: the bytes the last recv() returned
    payload,        \* the std::string of the last pair pushed, byte by byte
    bPc             \* position of the handler whose buffer is followed byte by byte

vars == << mainPc, clientSocket, threadData, serverSocket, restarts, clientsMap,
           dtorLeft, joined, messageQueue, mutex, hPc, hSock, hBuf, threadConn,
           cPc, cMsg, fdConn, nConns, peerOpen, avail, rcvd, pushed, reported,
           buffer, recvBytes, payload, bPc >>

mainVars == << mainPc, clientSocket, threadData, serverSocket, restarts,
               clientsMap, dtorLeft, joined >>
handlerVars == << hPc, hSock, hBuf, threadConn >>
consumerVars == << cPc, cMsg >>
envVars == << fdConn, nConns, peerOpen, avail, rcvd >>
byteVars == << buffer, recvBytes, payload, bPc >>

\* ---- helpers ----
Threads == DOMAIN hPc
Fds == DOMAIN fdConn
Socks == Fds \cup {INVALID_SOCKET}
NoChunk == << >>
NoMsg == [id |-> INVALID_SOCKET, chunk |-> NoChunk]
EmptyMap == [s \in {} |-> 0]
MinOf(S) == CHOOSE x \in S : \A y \in S : x <= y
FreeFds == {f \in Fds : fdConn[f] = 0}
Unstarted == {t \in Threads : hPc[t] = "start"}

\* close(fd): the descriptor is released; close(-1) and a second close fail
\* with EBADF and change nothing.
CloseFd(tbl, s) == IF s \in DOMAIN tbl THEN [tbl EXCEPT ![s] = 0] ELSE tbl

\* clientsMap[clientSocket] = thread: inserts, or overwrites the entry of a key
\* that is already there.
MapAssign(m, k, v) == [x \in (DOMAIN m) \cup {k} |-> IF x = k THEN v ELSE m[x]]

\* std::queue: push appends at the back, front/pop take from the front.
FrontLast(q) == q[Len(q)]
Front(q) == Head(q)
Pop(q) == Tail(q)
Push(q, m) == Append(q, m)

\* ---- initial state: after Server::Server ----
\* The constructor has bound the server socket and started the consumer thread.
\* mutex is never passed to pthread_mutex_init: its bytes are whatever the
\* storage of the Server object holds.  Zero bytes are an unlocked default
\* mutex; "garbage" stands for a lock word on which pthread_mutex_lock never
\* returns.
InitWith(fdLimit) ==
    /\ mainPc = "listen"
    /\ clientSocket = INVALID_SOCKET
    /\ threadData = [live |-> FALSE, clientSoc |-> INVALID_SOCKET]
    /\ serverSocket = "bound"
    /\ restarts = 0
    /\ clientsMap = EmptyMap
    /\ dtorLeft = {}
    /\ joined = {}
    /\ messageQueue = << >>
    /\ mutex \in {[st |-> "free", by |-> 0], [st |-> "garbage", by |-> 0]}
    /\ hPc = [t \in {} |-> "start"]
    /\ hSock = [t \in {} |-> INVALID_SOCKET]
    /\ hBuf = [t \in {} |-> NoChunk]
    /\ threadConn = [t \in {} |-> 0]
    /\ cPc = "check"
    /\ cMsg = NoMsg
    /\ fdConn = [f \in 1..fdLimit |-> 0]
    /\ nConns = 0
    /\ peerOpen = {}
    /\ avail = [c \in {} |-> 0]
    /\ rcvd = [c \in {} |-> 0]
    /\ pushed = << >>
    /\ reported = << >>

\* The handler's buffer seen byte by byte: not followed in Spec and CapSpec,
\* where a chunk is an identity; PayloadSpec follows it.
Bytes == 0..MaxByte
Zeroed == [i \in 1..BufLen |-> 0]
BytesOff ==
    /\ buffer = Zeroed
    /\ recvBytes = << >>
    /\ payload = << >>
    /\ bPc = "off"

Init == InitWith(MaxFd) /\ BytesOff

\* ---- the controlling thread ----

\* startListening, lines 156-164: listen() succeeds and the accept loop is
\* entered; threadData's slot belongs to the new frame and holds nothing yet.
ListenOk ==
    /\ mainPc = "listen"
    /\ serverSocket' = "listening"
    /\ mainPc' = "accept"
    /\ UNCHANGED << clientSocket, threadData, restarts, clientsMap, dtorLeft, joined >>
    /\ UNCHANGED << messageQueue, mutex, pushed, reported >>
    /\ UNCHANGED << handlerVars, consumerVars, envVars >>
    /\ UNCHANGED byteVars

\* startListening, lines 156-159: listen() fails and TCPServerError is thrown;
\* startServer catches it and prompts.
ListenFail ==
    /\ mainPc = "listen"
    /\ mainPc' = "prompt"
    /\ UNCHANGED << clientSocket, threadData, serverSocket, restarts, clientsMap,
                    dtorLeft, joined >>
    /\ UNCHANGED << messageQueue, mutex, pushed, reported >>
    /\ UNCHANGED << handlerVars, consumerVars, envVars >>
    /\ UNCHANGED byteVars

\* Lines 169-180 with accept() returning a new descriptor: the kernel hands out
\* the lowest free one.  No count of open connections is consulted.  The
\* PosixThreadData of this iteration is constructed in the slot.
\* quota bounds the handler threads of a run; maxPending lets a peer connect
\* only while at most that many handlers have not yet read their argument.
AcceptOk(quota, maxPending) ==
    /\ mainPc = "accept"
    /\ Cardinality(Threads) < quota
    /\ Cardinality(Unstarted) <= maxPending
    /\ FreeFds # {}
    /\ LET f == MinOf(FreeFds)
           c == nConns + 1
       IN /\ fdConn' = [fdConn EXCEPT ![f] = c]
          /\ nConns' = c
          /\ peerOpen' = peerOpen \cup {c}
          /\ avail' = avail @@ (c :> 0)
          /\ rcvd' = rcvd @@ (c :> 0)
          /\ clientSocket' = f
          /\ threadData' = [live |-> TRUE, clientSoc |-> f]
    /\ mainPc' = "spawn"
    /\ UNCHANGED << serverSocket, restarts, clientsMap, dtorLeft, joined >>
    /\ UNCHANGED << messageQueue, mutex, pushed, reported >>
    /\ UNCHANGED << handlerVars, consumerVars >>
    /\ UNCHANGED byteVars

\* Lines 169-180 with accept() returning -1: the failure is printed and the
\* iteration goes on to build the thread data with clientSocket = -1.
AcceptFail(quota) ==
    /\ mainPc = "accept"
    /\ Cardinality(Threads) < quota
    /\ clientSocket' = INVALID_SOCKET
    /\ threadData' = [live |-> TRUE, clientSoc |-> INVALID_SOCKET]
    /\ mainPc' = "spawn"
    /\ UNCHANGED << serverSocket, restarts, clientsMap, dtorLeft, joined >>
    /\ UNCHANGED << messageQueue, mutex, pushed, reported >>
    /\ UNCHANGED << handlerVars, consumerVars, envVars >>
    /\ UNCHANGED byteVars

\* Lines 181, 186-189: pthread_create succeeds; the new thread is given the
\* address of threadData, and the map entry of clientSocket is set.
ConnOf(s) == IF s \in Fds THEN fdConn[s] ELSE 0
SpawnOk ==
    /\ mainPc = "spawn"
    /\ LET t == Cardinality(Threads) + 1
       IN /\ hPc' = hPc @@ (t :> "start")
          /\ hSock' = hSock @@ (t :> INVALID_SOCKET)
          /\ hBuf' = hBuf @@ (t :> NoChunk)
          /\ threadConn' = threadConn @@ (t :> ConnOf(clientSocket))
          /\ clientsMap' = MapAssign(clientsMap, clientSocket, t)
    /\ mainPc' = "accept"
    /\ UNCHANGED << clientSocket, threadData, serverSocket, restarts, dtorLeft, joined >>
    /\ UNCHANGED << messageQueue, mutex, pushed, reported >>
    /\ UNCHANGED << consumerVars, envVars >>
    /\ UNCHANGED byteVars

\* Lines 181-185: pthread_create fails; the throw leaves startListening (the
\* close after it is never executed), so the frame that held threadData is
\* gone.  startServer catches and prompts.
SpawnFail ==
    /\ mainPc = "spawn"
    /\ threadData' = [threadData EXCEPT !.live = FALSE]
    /\ mainPc' = "prompt"
    /\ UNCHANGED << clientSocket, serverSocket, restarts, clientsMap, dtorLeft, joined >>
    /\ UNCHANGED << messageQueue, mutex, pushed, reported >>
    /\ UNCHANGED << handlerVars, consumerVars, envVars >>
    /\ UNCHANGED byteVars

\* startServer, lines 115-120, answer Y: the map is cleared, then
\* createAndBindSocket closes the server socket and creates and binds a new one.
RestartOk ==
    /\ mainPc = "prompt"
    /\ restarts < MaxRestarts
    /\ restarts' = restarts + 1
    /\ clientsMap' = EmptyMap
    /\ serverSocket' = "bound"
    /\ mainPc' = "listen"
    /\ UNCHANGED << clientSocket, threadData, dtorLeft, joined >>
    /\ UNCHANGED << messageQueue, mutex, pushed, reported >>
    /\ UNCHANGED << handlerVars, consumerVars, envVars >>
    /\ UNCHANGED byteVars

\* Answer Y with socket() or bind() failing in createAndBindSocket (lines 66-82):
\* the exception leaves startServer; the Server object is then destroyed.
RestartFail ==
    /\ mainPc = "prompt"
    /\ restarts < MaxRestarts
    /\ restarts' = restarts + 1
    /\ clientsMap' = EmptyMap
    /\ serverSocket' = "closed"
    /\ dtorLeft' = {}
    /\ mainPc' = "dtor_join"
    /\ UNCHANGED << clientSocket, threadData, joined >>
    /\ UNCHANGED << messageQueue, mutex, pushed, reported >>
    /\ UNCHANGED << handlerVars, consumerVars, envVars >>
    /\ UNCHANGED byteVars

\* startServer, lines 121-125, answer N: startServer returns and the Server
\* object is destroyed; ~Server starts its range-for over clientsMap.
Shutdown ==
    /\ mainPc = "prompt"
    /\ dtorLeft' = DOMAIN clientsMap
    /\ mainPc' = "dtor_join"
    /\ UNCHANGED << clientSocket, threadData, serverSocket, restarts, clientsMap, joined >>
    /\ UNCHANGED << messageQueue, mutex, pushed, reported >>
    /\ UNCHANGED << handlerVars, consumerVars, envVars >>
    /\ UNCHANGED byteVars

\* ~Server, lines 42-47: pthread_join on the entry with the smallest key not
\* yet visited; it returns once that thread has ended.
DtorEntry == MinOf(dtorLeft)
DtorJoin ==
    /\ mainPc = "dtor_join"
    /\ dtorLeft # {}
    /\ hPc[clientsMap[DtorEntry]] = "done"
    /\ joined' = joined \cup {clientsMap[DtorEntry]}
    /\ mainPc' = "dtor_close"
    /\ UNCHANGED << clientSocket, threadData, serverSocket, restarts, clientsMap, dtorLeft >>
    /\ UNCHANGED << messageQueue, mutex, pushed, reported >>
    /\ UNCHANGED << handlerVars, consumerVars, envVars >>
    /\ UNCHANGED byteVars

\* ~Server, line 49: close(socket) on the entry's key, after the join.
DtorClose ==
    /\ mainPc = "dtor_close"
    /\ fdConn' = CloseFd(fdConn, DtorEntry)
    /\ dtorLeft' = dtorLeft \ {DtorEntry}
    /\ mainPc' = "dtor_join"
    /\ UNCHANGED << clientSocket, threadData, serverSocket, restarts, clientsMap, joined >>
    /\ UNCHANGED << messageQueue, mutex, pushed, reported >>
    /\ UNCHANGED << handlerVars, consumerVars, nConns, peerOpen, avail, rcvd >>
    /\ UNCHANGED byteVars

\* ~Server, line 52: the range-for is over and pthread_join(messageQueueThread)
\* is called.  handleMessageQueue is a while(true) without return, so the call
\* does not return and lines 53-57 (close(serverSocket)) are not reached.
DtorJoinConsumer ==
    /\ mainPc = "dtor_join"
    /\ dtorLeft = {}
    /\ mainPc' = "dtor_join_mq"
    /\ UNCHANGED << clientSocket, threadData, serverSocket, restarts, clientsMap,
                    dtorLeft, joined >>
    /\ UNCHANGED << messageQueue, mutex, pushed, reported >>
    /\ UNCHANGED << handlerVars, consumerVars, envVars >>
    /\ UNCHANGED byteVars

MainStep(quota, maxPending) ==
    \/ ListenOk
    \/ ListenFail
    \/ AcceptOk(quota, maxPending)
    \/ AcceptFail(quota)
    \/ SpawnOk
    \/ SpawnFail
    \/ RestartOk
    \/ RestartFail
    \/ Shutdown
    \/ DtorJoin
    \/ DtorClose
    \/ DtorJoinConsumer

\* ---- handler threads ----

\* pthread_mutex_lock(&mutex) returns for thread `who` only on a free mutex.
CanLock == mutex.st = "free"
Locked(who) == [st |-> "held", by |-> who]
\* A pthread_mutex_unlock that is left out: the mutex stays as it is.
StillHeld == mutex
Unlocked == [st |-> "free", by |-> 0]
ConsumerId == 0

\* handleClientWrapper, lines 219-220: the thread reads clientSoc through the
\* pointer it was given.  The pointer is to startListening's stack slot: it
\* holds what the accept loop constructed there last, and any value once the
\* frame is gone (a value outside the descriptor table behaves as -1 does).
\* The server member read through the same pointer is the same in every
\* PosixThreadData the loop constructs.
ArgValues == IF threadData.live THEN {threadData.clientSoc} ELSE Socks
HandlerStart(t) ==
    /\ hPc[t] = "start"
    /\ \E s \in ArgValues : hSock' = [hSock EXCEPT ![t] = s]
    /\ hPc' = [hPc EXCEPT ![t] = "recv"]
    /\ UNCHANGED << hBuf, threadConn >>
    /\ UNCHANGED << mainVars, consumerVars, envVars >>
    /\ UNCHANGED << messageQueue, mutex, pushed, reported >>
    /\ UNCHANGED byteVars

\* Line 200, recv() returning > 0: the oldest unread chunk of the connection
\* that is open on the descriptor now.
RecvData(t) ==
    /\ hPc[t] = "recv"
    /\ ConnOf(hSock[t]) # 0
    /\ LET c == ConnOf(hSock[t])
       IN /\ avail[c] > 0
          /\ avail' = [avail EXCEPT ![c] = @ - 1]
          /\ rcvd' = [rcvd EXCEPT ![c] = @ + 1]
          /\ hBuf' = [hBuf EXCEPT ![t] = << c, rcvd[c] + 1 >>]
    /\ hPc' = [hPc EXCEPT ![t] = "lock"]
    /\ UNCHANGED << hSock, threadConn, fdConn, nConns, peerOpen >>
    /\ UNCHANGED << mainVars, consumerVars >>
    /\ UNCHANGED << messageQueue, mutex, pushed, reported >>
    /\ UNCHANGED byteVars

\* Line 200, recv() returning <= 0: 0 when the peer has closed and nothing is
\* left to read, -1 on a descriptor that is not open (EBADF); the loop ends,
\* lines 208-211 print the disconnect.
RecvEnd(t) ==
    /\ hPc[t] = "recv"
    /\ \/ ConnOf(hSock[t]) = 0
       \/ /\ ConnOf(hSock[t]) # 0
          /\ ConnOf(hSock[t]) \notin peerOpen
          /\ avail[ConnOf(hSock[t])] = 0
    /\ hPc' = [hPc EXCEPT ![t] = "close"]
    /\ UNCHANGED << hSock, hBuf, threadConn >>
    /\ UNCHANGED << mainVars, consumerVars, envVars >>
    /\ UNCHANGED << messageQueue, mutex, pushed, reported >>
    /\ UNCHANGED byteVars

\* Line 202.
HandlerLock(t) ==
    /\ hPc[t] = "lock"
    /\ CanLock
    /\ mutex' = Locked(t)
    /\ hPc' = [hPc EXCEPT ![t] = "push"]
    /\ UNCHANGED << hSock, hBuf, threadConn >>
    /\ UNCHANGED << mainVars, consumerVars, envVars >>
    /\ UNCHANGED << messageQueue, pushed, reported >>
    /\ UNCHANGED byteVars

\* Lines 203-205: the pair (clientSocket, buffer) is pushed, the mutex is
\* unlocked, the buffer is cleared and the loop reads again.
HandlerPush(t) ==
    /\ hPc[t] = "push"
    /\ LET m == [id |-> hSock[t], chunk |-> hBuf[t]]
       IN /\ messageQueue' = Push(messageQueue, m)
          /\ pushed' = Append(pushed, m)
    /\ mutex' = Unlocked
    /\ hBuf' = [hBuf EXCEPT ![t] = NoChunk]
    /\ hPc' = [hPc EXCEPT ![t] = "recv"]
    /\ UNCHANGED << hSock, threadConn >>
    /\ UNCHANGED << mainVars, consumerVars, envVars >>
    /\ UNCHANGED << reported >>
    /\ UNCHANGED byteVars

\* A handler that erases its socket's registry entry before it ends.
HandlerCloseErase(t) ==
    /\ hPc[t] = "close"
    /\ fdConn' = CloseFd(fdConn, hSock[t])
    /\ clientsMap' = [s \in (DOMAIN clientsMap) \ {hSock[t]} |-> clientsMap[s]]
    /\ hSock' = [hSock EXCEPT ![t] = INVALID_SOCKET]
    /\ hPc' = [hPc EXCEPT ![t] = "done"]
    /\ UNCHANGED << hBuf, threadConn, nConns, peerOpen, avail, rcvd >>
    /\ UNCHANGED << mainPc, clientSocket, threadData, serverSocket, restarts,
                    dtorLeft, joined, consumerVars >>
    /\ UNCHANGED << messageQueue, mutex, pushed, reported >>
    /\ UNCHANGED byteVars

\* Line 213: close(clientSocket); the thread ends and its locals with it.
\* clientsMap is not touched.
HandlerClose(t) ==
    /\ hPc[t] = "close"
    /\ fdConn' = CloseFd(fdConn, hSock[t])
    /\ hSock' = [hSock EXCEPT ![t] = INVALID_SOCKET]
    /\ hPc' = [hPc EXCEPT ![t] = "done"]
    /\ UNCHANGED << hBuf, threadConn, nConns, peerOpen, avail, rcvd >>
    /\ UNCHANGED << mainVars, consumerVars >>
    /\ UNCHANGED << messageQueue, mutex, pushed, reported >>
    /\ UNCHANGED byteVars

HandlerStep(t) ==
    \/ HandlerStart(t)
    \/ RecvData(t)
    \/ RecvEnd(t)
    \/ HandlerLock(t)
    \/ HandlerPush(t)
    \/ HandlerClose(t)

\* ---- the consumer thread ----

\* A consumer that goes on to the dequeue without the emptiness test.
ConsumerCheckNoWait ==
    /\ cPc = "check"
    /\ cPc' = "lock"
    /\ UNCHANGED << cMsg, mainVars, handlerVars, envVars >>
    /\ UNCHANGED << messageQueue, mutex, pushed, reported >>
    /\ UNCHANGED byteVars

\* Lines 134-135: the emptiness test, made without the mutex, finds a message;
\* while the queue is empty the thread sleeps and tests again.
ConsumerCheck ==
    /\ cPc = "check"
    /\ messageQueue # << >>
    /\ cPc' = "lock"
    /\ UNCHANGED << cMsg, mainVars, handlerVars, envVars >>
    /\ UNCHANGED << messageQueue, mutex, pushed, reported >>
    /\ UNCHANGED byteVars

\* Line 138.
ConsumerLock ==
    /\ cPc = "lock"
    /\ CanLock
    /\ mutex' = Locked(ConsumerId)
    /\ cPc' = "pop"
    /\ UNCHANGED << cMsg, mainVars, handlerVars, envVars >>
    /\ UNCHANGED << messageQueue, pushed, reported >>
    /\ UNCHANGED byteVars

\* Lines 139-140: front() is copied, then pop().
ConsumerPop ==
    /\ cPc = "pop"
    /\ messageQueue # << >>
    /\ cMsg' = Front(messageQueue)
    /\ messageQueue' = Pop(messageQueue)
    /\ cPc' = "unlock"
    /\ UNCHANGED << mainVars, handlerVars, envVars >>
    /\ UNCHANGED << mutex, pushed, reported >>
    /\ UNCHANGED byteVars

\* Lines 141-143: unlock, then the pair is printed; clientMessagePair goes out
\* of scope and the loop starts over.
ConsumerPrint ==
    /\ cPc = "unlock"
    /\ mutex' = Unlocked
    /\ reported' = Append(reported, cMsg)
    /\ cMsg' = NoMsg
    /\ cPc' = "check"
    /\ UNCHANGED << mainVars, handlerVars, envVars >>
    /\ UNCHANGED << messageQueue, pushed >>
    /\ UNCHANGED byteVars

ConsumerStep ==
    \/ ConsumerCheck
    \/ ConsumerLock
    \/ ConsumerPop
    \/ ConsumerPrint

\* ---- the peers ----

\* A peer writes a chunk to its connection.
RECURSIVE SumOver(_, _)
SumOver(f, S) == IF S = {} THEN 0
                 ELSE LET x == CHOOSE y \in S : TRUE IN f[x] + SumOver(f, S \ {x})
Sent == SumOver(avail, DOMAIN avail) + SumOver(rcvd, DOMAIN rcvd)
PeerSend(c) ==
    /\ c \in peerOpen
    /\ Sent < MaxChunks
    /\ avail' = [avail EXCEPT ![c] = @ + 1]
    /\ UNCHANGED << fdConn, nConns, peerOpen, rcvd >>
    /\ UNCHANGED << mainVars, handlerVars, consumerVars >>
    /\ UNCHANGED << messageQueue, mutex, pushed, reported >>
    /\ UNCHANGED byteVars

\* A peer closes its end of a connection: once the unread chunks are read,
\* recv() on it returns 0.
PeerClose(c) ==
    /\ c \in peerOpen
    /\ peerOpen' = peerOpen \ {c}
    /\ UNCHANGED << fdConn, nConns, avail, rcvd >>
    /\ UNCHANGED << mainVars, handlerVars, consumerVars >>
    /\ UNCHANGED << messageQueue, mutex, pushed, reported >>
    /\ UNCHANGED byteVars

\* ---- specifications ----

Next ==
    \/ MainStep(MaxThreads, MaxThreads)
    \/ \E t \in Threads : HandlerStart(t)
    \/ \E t \in Threads : RecvData(t)
    \/ \E t \in Threads : RecvEnd(t)
    \/ \E t \in Threads : HandlerLock(t)
    \/ \E t \in Threads : HandlerPush(t)
    \/ \E t \in Threads : HandlerClose(t)
    \/ ConsumerStep
    \/ \E c \in peerOpen : PeerSend(c)
    \/ \E c \in peerOpen : PeerClose(c)

Spec == Init /\ [][Next]_vars

\* The listener alone, with MAX_CLIENTS + 1 peers that connect one after the
\* other, stay silent and stay connected: descriptors and thread quota for
\* MAX_CLIENTS + 1 connections, a peer connecting only once at most one earlier
\* handler has still to read its argument.
CapInit == InitWith(MAX_CLIENTS + 1) /\ BytesOff
CapNext ==
    \/ ListenOk
    \/ AcceptOk(MAX_CLIENTS + 1, 1)
    \/ SpawnOk
    \/ \E t \in Threads : HandlerStart(t)
CapSpec == CapInit /\ [][CapNext]_vars

\* ---- one handler's buffer, byte by byte ----

\* Lines 196-206 of handleClient for one handler thread and the bytes its
\* recv() calls return.  The rest of the program stands still.
programVars == << mainVars, handlerVars, consumerVars, envVars,
                 messageQueue, mutex, pushed, reported >>

\* The chunks a recv(clientSocket, buffer, sizeof(buffer) - 1, 0) can return.
Chunks == UNION {[1..n -> Bytes] : n \in 1..(BufLen - 1)}

\* The positions of buffer that hold a zero byte.
Nuls(buf) == {i \in 1..Len(buf) : buf[i] = 0}

\* The bytes that may follow the buffer in memory up to the next zero byte,
\* read when the buffer holds no zero byte at all (a read past the array).
Overrun == {<< >>} \cup {<< b >> : b \in Bytes \ {0}}

\* std::string(const char*): the bytes before the first zero byte.
CStrings(buf) ==
    IF Nuls(buf) # {}
    THEN {SubSeq(buf, 1, MinOf(Nuls(buf)) - 1)}
    ELSE {buf \o x : x \in Overrun}

\* Line 196: char buffer[256] is not initialised.
PayloadInit ==
    /\ InitWith(MaxFd)
    /\ mutex = Unlocked
    /\ buffer \in [1..BufLen -> Bytes]
    /\ recvBytes = << >>
    /\ payload = << >>
    /\ bPc = "recv"

\* Line 200: recv() stores the chunk at the start of buffer and leaves the
\* bytes after it as they are.
BufRecv ==
    /\ bPc = "recv"
    /\ \E chunk \in Chunks :
          /\ buffer' = [i \in 1..BufLen |->
                           IF i <= Len(chunk) THEN chunk[i] ELSE buffer[i]]
          /\ recvBytes' = chunk
    /\ bPc' = "push"
    /\ UNCHANGED << payload, programVars >>

\* Line 203: std::make_pair(clientSocket, buffer) is a pair<int, char*>; push
\* converts it to pair<int, std::string>, the string built from the char*.
BufPush ==
    /\ bPc = "push"
    /\ payload' \in CStrings(buffer)
    /\ bPc' = "memset"
    /\ UNCHANGED << buffer, recvBytes, programVars >>

\* Line 205: memset(buffer, 0, sizeof(buffer)).
BufMemset ==
    /\ bPc = "memset"
    /\ buffer' = Zeroed
    /\ bPc' = "recv"
    /\ UNCHANGED << recvBytes, payload, programVars >>

PayloadNext == BufRecv \/ BufPush \/ BufMemset
PayloadSpec == PayloadInit /\ [][PayloadNext]_vars

\* ---- vocabulary of the properties ----

\* The steps of the program's own threads (everything but the peers).
ProgramNext ==
    \/ MainStep(MaxThreads, MaxThreads)
    \/ \E t \in Threads : HandlerStep(t)
    \/ ConsumerStep
Quiescent == ~ENABLED ProgramNext

Conns == 1..nConns
OpenConns == {fdConn[f] : f \in Fds} \ {0}
HandlersOf(c) == {t \in Threads : threadConn[t] = c}
LiveConnections == {c \in OpenConns : \E t \in HandlersOf(c) : hPc[t] # "done"}
InHand == IF cPc = "unlock" THEN << cMsg >> ELSE << >>
ReportsOf(ch) == {i \in 1..Len(reported) : reported[i].chunk = ch}

\* ---- properties ----

\* C1: for every connection, the consumer reports the chunks received on it in
\* the order the recv() calls returned them.
C1_PerConnectionOrder ==
    \A i, j \in 1..Len(reported) :
        (i < j /\ reported[i].chunk[1] = reported[j].chunk[1])
            => reported[i].chunk[2] < reported[j].chunk[2]

\* C2: once the program's threads have nothing left to do, every chunk the peer
\* of a connection has sent has been reported exactly once (N connections, each
\* with its handler spawned, M chunks each: N x M reports).
C2_EveryChunkReportedOnce ==
    (/\ Quiescent
     /\ mutex.st = "free"
     /\ \A c \in Conns : HandlersOf(c) # {})
        => \A c \in Conns :
              /\ avail[c] = 0
              /\ \A k \in 1..rcvd[c] : Cardinality(ReportsOf(<< c, k >>)) = 1

\* C3: the pairs the consumer has taken from the queue, in the order it took
\* them, followed by the pairs still queued, are the pairs pushed, in push
\* order.
C3_QueueIsFifo == pushed = reported \o InHand \o messageQueue

\* C3, witness: the consumer has just taken a pair from the queue while a pair
\* pushed later, by the handler of another connection, is still queued.
C3_Witness ==
    /\ cPc = "unlock"
    /\ Len(messageQueue) >= 1
    /\ messageQueue[1].chunk[1] # cMsg.chunk[1]
    /\ messageQueue[1].id # cMsg.id

\* C4: once every client that connected has disconnected, its handler has ended
\* and its socket is closed, and the accept loop waits for the next client, the
\* registry is empty.
C4_RegistryEmptyAfterDisconnect ==
    (/\ mainPc = "accept"
     /\ nConns > 0
     /\ OpenConns = {}
     /\ \A t \in Threads : threadConn[t] # 0 /\ hPc[t] = "done")
        => DOMAIN clientsMap = {}

\* C5: the open connections that have a live handler never number more than
\* MAX_CLIENTS.
C5_AtMostMaxClients == Cardinality(LiveConnections) <= MAX_CLIENTS

\* C6: the restart branch of startServer leaves the server about to listen
\* again with an empty registry and an empty message queue.
C6_RestartStartsEmpty ==
    [][(mainPc = "prompt" /\ mainPc' = "listen")
          => (DOMAIN clientsMap' = {} /\ messageQueue' = << >>)]_vars

\* C7: when the destructor goes on to join the consumer thread, every handler
\* thread that was spawned has been joined.
C7_AllHandlersJoined ==
    mainPc = "dtor_join_mq" => \A t \in Threads : t \in joined

\* C8: the destructor never waits in pthread_join for a handler that is blocked
\* in recv() on an open socket whose peer is silent: the socket was closed first.
BlockedOnSilentPeer(t) ==
    /\ hPc[t] = "recv"
    /\ ConnOf(hSock[t]) # 0
    /\ ConnOf(hSock[t]) \in peerOpen
    /\ avail[ConnOf(hSock[t])] = 0
C8_SocketClosedBeforeJoin ==
    (mainPc = "dtor_join" /\ dtorLeft # {})
        => ~BlockedOnSilentPeer(clientsMap[DtorEntry])

\* C9: when the destructor waits for the consumer thread, every handler has
\* ended and the consumer has nothing left to drain, the consumer thread has
\* terminated (so that the join returns).
C9_ConsumerTerminates ==
    (/\ mainPc = "dtor_join_mq"
     /\ \A t \in Threads : hPc[t] = "done"
     /\ ~ENABLED ConsumerStep)
        => cPc = "done"

\* C10: outside the two lines between accept() and pthread_create(), every open
\* client socket has a handler thread that was spawned for it.
C10_NoSocketWithoutHandler ==
    mainPc # "spawn" => \A c \in OpenConns : HandlersOf(c) # {}

\* C11: a failed accept() has no effect beyond its log line: no handler thread
\* is spawned for the call that returned INVALID_SOCKET, and the registry gets
\* no entry for it.
SpawnedForFailedAccept == {t \in Threads : threadConn[t] = 0}
C11_FailedAcceptHasNoEffect ==
    /\ SpawnedForFailedAccept = {}
    /\ INVALID_SOCKET \notin DOMAIN clientsMap

\* C12: a handler that has read its argument works on the socket accept()
\* returned for it, no two handlers work on the same socket, and every open
\* connection that had a handler spawned for it is the one that handler (not
\* yet started, or started) works on.
Reading(t) == hPc[t] \in {"recv", "lock", "push"}
C12_HandlerReadsItsOwnSocket ==
    /\ \A t \in Threads : Reading(t) => ConnOf(hSock[t]) = threadConn[t]
    /\ \A t, u \in Threads :
          (t # u /\ Reading(t) /\ Reading(u) /\ hSock[t] \in Fds)
              => hSock[t] # hSock[u]
    /\ \A c \in OpenConns :
          HandlersOf(c) # {}
              => \E t \in HandlersOf(c) :
                    hPc[t] = "start" \/ ConnOf(hSock[t]) = c

\* C13: every step that tests the queue for emptiness, reads its front, pops it
\* or pushes to it is taken by a thread that holds the queue mutex.
Holds(who) == mutex = Locked(who)
QueueAccessUnderMutex ==
    /\ (cPc = "check" /\ cPc' = "lock") => Holds(ConsumerId)
    /\ (cPc = "pop" /\ cPc' = "unlock") => Holds(ConsumerId)
    /\ \A t \in Threads :
          (hPc[t] = "push" /\ hPc'[t] = "recv") => Holds(t)
C13_QueueOnlyUnderMutex == [][QueueAccessUnderMutex]_vars

\* C14: the registry has a lock of its own, distinct from the queue mutex, and
\* every step that inserts into, clears or otherwise changes clientsMap is
\* taken while the controlling thread holds that lock.
ControllerId == -1
ServerLocks == {"mutex"}
QueueLock == "mutex"
LocksHeldBy(who) == {l \in ServerLocks : l = QueueLock /\ Holds(who)}
C14_RegistryUnderItsOwnLock ==
    [][clientsMap' # clientsMap
          => LocksHeldBy(ControllerId) \ {QueueLock} # {}]_vars

\* C15: no thread holds the queue mutex while it is blocked or after it has
\* ended: a handler holds it only between its pthread_mutex_lock and its
\* pthread_mutex_unlock (never in recv(), never once terminated), the consumer
\* only between lock and unlock (never in usleep()), and the controlling
\* thread (accept(), pthread_join()) never.
C15_NoLockAcrossBlockingCall ==
    /\ \A t \in Threads : Holds(t) => hPc[t] = "push"
    /\ Holds(ConsumerId) => cPc \in {"pop", "unlock"}
    /\ ~Holds(ControllerId)

\* C15, witness: a handler is inside its critical section for the second push
\* of the run while the consumer waits in pthread_mutex_lock and the
\* controlling thread is blocked in accept().
C15_Witness ==
    /\ \E t \in Threads : Holds(t) /\ hPc[t] = "push"
    /\ cPc = "lock"
    /\ mainPc = "accept"
    /\ Len(pushed) >= 1

\* C16: a registry entry for a client socket is dropped or bound to another
\* thread handle (erase, overwrite by a later insert under the same key, clear
\* on restart) only when the handler thread it tracks has terminated and has
\* been joined.
C16_EntryDroppedOnlyAfterJoin ==
    [][\A s \in (DOMAIN clientsMap) \cap Fds :
          (s \notin DOMAIN clientsMap' \/ clientsMap'[s] # clientsMap[s])
              => (hPc[clientsMap[s]] = "done" /\ clientsMap[s] \in joined)]_vars

\* C17: the destructor joins no thread handle twice, and the close() it makes
\* on a client socket after a join acts on a descriptor that is still open and still belongs to the
\* connection of the handler just joined (not closed already by that handler,
\* not reassigned since).
C17_ShutdownClosesOnlyOpenSockets ==
    [][/\ (mainPc = "dtor_join" /\ mainPc' = "dtor_close")
            => clientsMap[DtorEntry] \notin joined
       /\ (mainPc = "dtor_close" /\ mainPc' = "dtor_join" /\ DtorEntry \in Fds)
            => (/\ ConnOf(DtorEntry) # 0
                /\ ConnOf(DtorEntry) = threadConn[clientsMap[DtorEntry]])]_vars

\* C18: the string pushed for a chunk is the chunk: the bytes recv() returned,
\* all of them and nothing more, whatever the chunk (first read or later, with
\* or without a zero byte).
C18_PayloadIsTheBytesRead == bPc = "memset" => payload = recvBytes

\* C19: whenever the consumer is at its dequeue step (front() and pop(), under
\* the mutex) the queue holds at least one message, although the emptiness test
\* that let it through was made earlier and without the mutex.
C19_NoDequeueOnEmptyQueue == cPc = "pop" => messageQueue # << >>

\* C19, witness: the consumer is at its dequeue step and a handler has pushed a
\* second message since the emptiness test could first succeed.
C19_Witness ==
    /\ cPc = "pop"
    /\ Len(messageQueue) >= 2
    /\ Len(reported) = 0

\* C20: the registry is accessed by the controlling thread only: every step
\* that changes clientsMap is a step of the controlling thread (accept loop,
\* restart branch, destructor), and moves no handler and not the consumer.
C20_RegistryOnlyByController ==
    [][clientsMap' # clientsMap
          => (/\ mainPc' # mainPc
              /\ cPc' = cPc
              /\ \A t \in Threads : hPc'[t] = hPc[t])]_vars

\* C20, witness: the controlling thread is about to insert a second entry
\* while the handler tracked by an entry already there is pushing a message
\* and the consumer is between its emptiness test and its lock.
C20_Witness ==
    /\ mainPc = "spawn"
    /\ clientSocket \in Fds
    /\ \E s \in (DOMAIN clientsMap) \cap Fds : hPc[clientsMap[s]] = "push"
    /\ cPc = "lock"

====
